---- MODULE Spec2Model ----
(***************************************************************************)
(* kube-svc-watch: a mirror of the cluster's Services feeding a metrics    *)
(* collector and, in termination mode, a worker that deletes Services of   *)
(* type LoadBalancer that lack the cloud provider's "internal" annotation. *)
(*                                                                         *)
(* The program is src/main.go.  cache.NewFIFO, cache.NewStore and          *)
(* cache.NewReflector are the client-go 1.5 tools/cache containers the     *)
(* program instantiates; they are modelled by what those calls do          *)
(* (fifo.go, store.go, reflector.go of that library) at the lines of       *)
(* main.go that create and use them.                                       *)
(***************************************************************************)
EXTENDS Integers, Sequences, FiniteSets, TLC

(* ------------------------------ bounds -------------------------------- *)
\* number of create/update/delete operations other clients perform
MaxChanges == 3
\* number of delete calls that fail for a transient reason
MaxTransient == 2
\* number of times a watch stream is closed under a reflector
MaxCloses == 1
\* highest resourceVersion of the events handed to the store on its own
MaxRv == 3

(* ----------------------------- constants ------------------------------ *)
awsLbInternal == "service.beta.kubernetes.io/aws-load-balancer-internal"
awsLbInternalValue == "0.0.0.0/0"
gcpLbInternal == "cloud.google.com/load-balancer-type"
gcpLbInternalValue == "internal"

\* v1.ServiceType
ServiceTypeLoadBalancer == "LoadBalancer"
\* the values given to -slack-token and -slack-channel; "" is the default
SlackTokens == {"", "xoxb-token"}
SlackChans == {"", "#alerts"}

ServiceTypes == {"ClusterIP", "NodePort", "LoadBalancer", "ExternalName"}

\* values of the -provider flag: the two supported ones and an unknown one
Providers == {"aws", "gcp", "azure"}

Namespaces == {"default"}
Names == {"web"}
Keys == Namespaces \X Names

NoSvc == [none |-> TRUE]
NoErr == "nil"

VARIABLES
  provider,      \* *provider flag
  terminate,     \* *terminate flag
  slackToken,    \* *slackToken flag
  slackChan,     \* *slackChan flag
  mainPc,        \* position of main()
  remote,        \* the control plane: key -> Service or NoSvc
  nextUid,       \* next UID the control plane hands out
  lastRv,        \* the control plane's latest resourceVersion
  changes,       \* operations performed by other clients so far
  store,         \* main's cache.Store: key -> Service (keys present only)
  storeRef,      \* main's reflector: "off", "list" or "watch"
  storeWatch,    \* main's reflector: events of its watch not yet handled
  fifoItems,     \* terminator's FIFO: items map
  fifoQueue,     \* terminator's FIFO: queue of keys
  fifoRef,       \* terminator's reflector: "off", "list" or "watch"
  fifoWatch,     \* terminator's reflector: events of its watch not yet handled
  closes,        \* watch streams closed so far
  wpc,           \* position of the terminator goroutine
  item,          \* the item Pop hands to process / returns
  err,           \* the error Pop returns
  transients,    \* transient delete failures so far
  samples,       \* metrics emitted by the last scrape
  deleted,       \* history: successful deletes, in order
  notified,      \* history: notifier invocations, in order
  posts,         \* history: slackApi.PostMessage calls and their results, in order
  retried,       \* history: UID -> transient failures of its delete
  pushed,        \* history: key -> events queued since its last Pop, and the latest
  taken,         \* history: what pushed held for the key Pop just took, and whether
                 \* the control plane then held the same incarnation as external
  latest,        \* history: key -> the payload the FIFO's reflector delivered last
  inbox,         \* store convergence: events not applied yet
  applied,       \* store convergence: events applied, in arrival order
  probe,         \* classifier: the Service under test
  verdict        \* classifier: the result for probe

vars == <<provider, terminate, slackToken, slackChan, posts, mainPc, remote, nextUid, lastRv, changes,
          store, storeRef, storeWatch, fifoItems, fifoQueue, fifoRef, fifoWatch,
          closes, wpc, item, err, transients, samples, deleted,
          notified, retried, pushed, taken, latest, inbox, applied, probe, verdict>>

(* ------------------------------ Service ------------------------------- *)
\* svc.Annotations[k]: a Go map lookup, "" when the key is absent
Annotation(svc, k) == IF k \in DOMAIN svc.ann THEN svc.ann[k] ELSE ""

\* cache.MetaNamespaceKeyFunc
MetaNamespaceKeyFunc(svc) == <<svc.namespace, svc.name>>

NoAnn == <<>>

Service(key, uid, rv, type, ann) ==
  [namespace |-> key[1], name |-> key[2], uid |-> uid, rv |-> rv,
   type |-> type, ann |-> ann]

(* ----------------------------- classifier ----------------------------- *)
\* mutant: any value of the provider's marker annotation counts as internal
isInternalAnyValue(svc) ==
  IF provider = "aws"
  THEN svc.type # ServiceTypeLoadBalancer \/ Annotation(svc, awsLbInternal) # ""
  ELSE svc.type # ServiceTypeLoadBalancer \/ Annotation(svc, gcpLbInternal) # ""

isInternal(svc) ==
  IF provider = "aws"
  THEN svc.type # ServiceTypeLoadBalancer
         \/ Annotation(svc, awsLbInternal) = awsLbInternalValue
  ELSE svc.type # ServiceTypeLoadBalancer
         \/ Annotation(svc, gcpLbInternal) = gcpLbInternalValue


(* --------------------------- maps and queues -------------------------- *)
Put(m, k, v) == [x \in DOMAIN m \cup {k} |-> IF x = k THEN v ELSE m[x]]
Remove(m, k) == [x \in DOMAIN m \ {k} |-> m[x]]
EmptyMap == <<>>

\* the orders in which a Go `for id := range items` may visit a set of keys
Orders(S) == {q \in [1..Cardinality(S) -> S] : \A i, j \in 1..Cardinality(S) : q[i] = q[j] => i = j}

\* a list of Services as the map Replace builds: key -> Service
Keyed(list) == [k \in {MetaNamespaceKeyFunc(s) : s \in list} |->
                  CHOOSE s \in list : MetaNamespaceKeyFunc(s) = k]

(* ---------------- cache.Store (main.go: cache.NewStore) --------------- *)
\* Add and Update store the object under its key, whatever was there
StoreAdd(st, obj) == Put(st, MetaNamespaceKeyFunc(obj), obj)
StoreUpdate(st, obj) == Put(st, MetaNamespaceKeyFunc(obj), obj)
StoreDelete(st, obj) == Remove(st, MetaNamespaceKeyFunc(obj))
\* mutant: the listed objects are stored over what the store holds
StoreReplaceMerging(list) ==
  [k \in DOMAIN store \cup DOMAIN Keyed(list) |->
     IF k \in DOMAIN Keyed(list) THEN Keyed(list)[k] ELSE store[k]]

StoreReplace(list) == Keyed(list)
StoreList(st) == {st[k] : k \in DOMAIN st}

(* ----------------- cache.FIFO (main.go: cache.NewFIFO) ---------------- *)
\* a FIFO is [items |-> key -> Service, queue |-> sequence of keys]
NewFIFO == [items |-> EmptyMap, queue |-> <<>>]

\* mutant: an event for a key that has an item is appended behind it and
\* the pending item is left as it was
FifoAddKeepFirst(f, obj) ==
  LET id == MetaNamespaceKeyFunc(obj)
  IN  [items |-> IF id \in DOMAIN f.items THEN f.items ELSE Put(f.items, id, obj),
       queue |-> Append(f.queue, id)]

\* Add (and Update, which is Add): queue the key unless it has an item
FifoAdd(f, obj) ==
  LET id == MetaNamespaceKeyFunc(obj)
  IN  [items |-> Put(f.items, id, obj),
       queue |-> IF id \in DOMAIN f.items THEN f.queue ELSE Append(f.queue, id)]

\* Delete: the item goes, its key stays in the queue and is skipped by Pop
FifoDelete(f, obj) ==
  [items |-> Remove(f.items, MetaNamespaceKeyFunc(obj)), queue |-> f.queue]

\* addIfNotPresent, as Pop calls it for ErrRequeue
FifoAddIfNotPresent(f, id, obj) ==
  IF id \in DOMAIN f.items THEN f
  ELSE [items |-> Put(f.items, id, obj), queue |-> Append(f.queue, id)]

\* Replace: the items become the list, the queue its keys in map order
FifoReplace(list, order) == [items |-> Keyed(list), queue |-> order]

\* Pop skips the queued keys that have no item
RECURSIVE SkipDeleted(_, _)
SkipDeleted(queue, items) ==
  IF queue = <<>> \/ Head(queue) \in DOMAIN items THEN queue
  ELSE SkipDeleted(Tail(queue), items)

(* --------------------------- control plane ---------------------------- *)
Event(type, obj) == [type |-> type, object |-> obj]

\* the collaborator's delete(namespace, name, precondition{UID})
ApiDeleteResult(rem, key, opts) ==
  IF rem[key] = NoSvc THEN "NotFound"
  ELSE IF opts.preconditions /\ rem[key].uid # opts.uid THEN "Conflict"
  ELSE "nil"


\* the shapes other clients give a Service: its type and annotations
Shapes ==
  { [type |-> "LoadBalancer", ann |-> NoAnn],
    [type |-> "LoadBalancer", ann |-> (awsLbInternal :> awsLbInternalValue)],
    [type |-> "LoadBalancer", ann |-> (gcpLbInternal :> gcpLbInternalValue)],
    [type |-> "ClusterIP", ann |-> NoAnn] }

\* the process runs until main panics
Alive == mainPc # "panic"

fifo == [items |-> fifoItems, queue |-> fifoQueue]

\* the collection a list call returns
Listing == {remote[k] : k \in {x \in Keys : remote[x] # NoSvc}}

configVars == <<provider, terminate, slackToken, slackChan>>
planeVars == <<remote, nextUid, lastRv, changes>>
watchVars == <<storeWatch, fifoWatch>>
storeVars == <<store, storeRef>>
fifoVars == <<fifoItems, fifoQueue>>
workerVars == <<wpc, item, err>>
historyVars == <<deleted, notified, posts, retried, pushed, taken, latest>>

NoPush == [n |-> 0, last |-> NoSvc]

\* a change of the collection reaches every open watch, in order
Publish(ev) ==
  /\ storeWatch' = IF storeRef = "watch" THEN Append(storeWatch, ev) ELSE storeWatch
  /\ fifoWatch' = IF fifoRef = "watch" THEN Append(fifoWatch, ev) ELSE fifoWatch
auxVars == <<inbox, applied, probe, verdict>>

(* ------------------------------- Init --------------------------------- *)
\* the process after flag.Parse() and the client's construction, before the
\* first Service exists
Boot ==
  /\ mainPc = "terminate"
  /\ remote = [k \in Keys |-> NoSvc]
  /\ nextUid = 1
  /\ lastRv = 0
  /\ changes = 0
  /\ store = EmptyMap
  /\ storeRef = "off"
  /\ storeWatch = <<>>
  /\ fifoItems = EmptyMap
  /\ fifoQueue = <<>>
  /\ fifoRef = "off"
  /\ fifoWatch = <<>>
  /\ closes = 0
  /\ wpc = "off"
  /\ item = NoSvc
  /\ err = NoErr
  /\ transients = 0
  /\ samples = {}
  /\ deleted = <<>>
  /\ notified = <<>>
  /\ posts = <<>>
  /\ retried = EmptyMap
  /\ pushed = [k \in Keys |-> NoPush]
  /\ taken = NoPush
  /\ latest = [k \in Keys |-> NoSvc]

\* -slack-token and -slack-channel left at their defaults
NotifierOff == slackToken = "" /\ slackChan = ""

Init ==
  /\ provider \in Providers
  /\ terminate \in BOOLEAN
  /\ NotifierOff
  /\ Boot
  /\ inbox = {}
  /\ applied = <<>>
  /\ probe = NoSvc
  /\ verdict = "none"

(* ------------------- other clients of the control plane --------------- *)
ClientCreate(k, sh) ==
  /\ changes < MaxChanges
  /\ remote[k] = NoSvc
  /\ LET svc == Service(k, nextUid, lastRv + 1, sh.type, sh.ann)
     IN  /\ remote' = [remote EXCEPT ![k] = svc]
         /\ Publish(Event("ADDED", svc))
  /\ lastRv' = lastRv + 1
  /\ nextUid' = nextUid + 1
  /\ changes' = changes + 1
  /\ UNCHANGED <<configVars, mainPc, storeVars, fifoVars, fifoRef, closes,
                 workerVars, transients, samples, historyVars, auxVars>>

ClientUpdate(k, sh) ==
  /\ changes < MaxChanges
  /\ remote[k] # NoSvc
  /\ <<remote[k].type, remote[k].ann>> # <<sh.type, sh.ann>>
  /\ LET svc == [remote[k] EXCEPT !.rv = lastRv + 1, !.type = sh.type, !.ann = sh.ann]
     IN  /\ remote' = [remote EXCEPT ![k] = svc]
         /\ Publish(Event("MODIFIED", svc))
  /\ lastRv' = lastRv + 1
  /\ changes' = changes + 1
  /\ UNCHANGED <<configVars, mainPc, nextUid, storeVars, fifoVars, fifoRef, closes,
                 workerVars, transients, samples, historyVars, auxVars>>

ClientDelete(k) ==
  /\ changes < MaxChanges
  /\ remote[k] # NoSvc
  /\ remote' = [remote EXCEPT ![k] = NoSvc]
  /\ Publish(Event("DELETED", [remote[k] EXCEPT !.rv = lastRv + 1]))
  /\ lastRv' = lastRv + 1
  /\ changes' = changes + 1
  /\ UNCHANGED <<configVars, mainPc, nextUid, storeVars, fifoVars, fifoRef, closes,
                 workerVars, transients, samples, historyVars, auxVars>>


(* ------------------------------ main() -------------------------------- *)
\* mutant: the terminator is started whatever the flag says
TerminationModeAlways == TRUE

\* if *terminate { go terminator(clientset, notifySlack) }
TerminationMode == terminate

MainTerminate ==
  /\ mainPc = "terminate"
  /\ wpc' = IF TerminationMode THEN "start" ELSE wpc
  /\ mainPc' = "provider"
  /\ UNCHANGED <<configVars, planeVars, watchVars, storeVars, fifoVars, fifoRef, closes,
                 item, err, transients, samples, historyVars, auxVars>>

\* the provider check: aws, gcp, or panic("unknown provider specified")
MainProvider ==
  /\ mainPc = "provider"
  /\ mainPc' = IF provider = "aws" \/ provider = "gcp" THEN "store" ELSE "panic"
  /\ UNCHANGED <<configVars, planeVars, watchVars, storeVars, fifoVars, fifoRef, closes,
                 workerVars, transients, samples, historyVars, auxVars>>

\* store := cache.NewStore(...); cache.NewReflector(..., store, 0).Run();
\* the collector is registered and the HTTP server started
MainStore ==
  /\ mainPc = "store"
  /\ store' = EmptyMap
  /\ storeRef' = "list"
  /\ mainPc' = "serve"
  /\ UNCHANGED <<configVars, planeVars, watchVars, fifoVars, fifoRef, closes,
                 workerVars, transients, samples, historyVars, auxVars>>

(* ---------------------- reflector feeding the store ------------------- *)
\* Reflector.watchHandler on a cache.Store
StoreHandle(st, ev) ==
  CASE ev.type = "ADDED" -> StoreAdd(st, ev.object)
    [] ev.type = "MODIFIED" -> StoreUpdate(st, ev.object)
    [] ev.type = "DELETED" -> StoreDelete(st, ev.object)

\* Reflector.ListAndWatch: list, Replace, open the watch at the list's version
StoreListAndWatch ==
  /\ Alive
  /\ storeRef = "list"
  /\ store' = StoreReplace(Listing)
  /\ storeWatch' = <<>>
  /\ storeRef' = "watch"
  /\ UNCHANGED <<configVars, mainPc, planeVars, fifoWatch, fifoVars, fifoRef, closes,
                 workerVars, transients, samples, historyVars, auxVars>>

StoreWatchEvent ==
  /\ Alive
  /\ storeRef = "watch"
  /\ storeWatch # <<>>
  /\ store' = StoreHandle(store, Head(storeWatch))
  /\ storeWatch' = Tail(storeWatch)
  /\ UNCHANGED <<configVars, mainPc, planeVars, fifoWatch, storeRef, fifoVars, fifoRef,
                 closes, workerVars, transients, samples, historyVars, auxVars>>

\* the watch ends or errors: the events not yet received are lost
\* mutant: the reflector gives up when its watch ends
StoreWatchCloseGivingUp ==
  /\ Alive
  /\ storeRef = "watch"
  /\ closes < MaxCloses
  /\ storeRef' = "off"
  /\ storeWatch' = <<>>
  /\ closes' = closes + 1
  /\ UNCHANGED <<configVars, mainPc, planeVars, fifoWatch, store, fifoVars, fifoRef,
                 workerVars, transients, samples, historyVars, auxVars>>

StoreWatchClose ==
  /\ Alive
  /\ storeRef = "watch"
  /\ closes < MaxCloses
  /\ storeRef' = "list"
  /\ storeWatch' = <<>>
  /\ closes' = closes + 1
  /\ UNCHANGED <<configVars, mainPc, planeVars, fifoWatch, store, fifoVars, fifoRef,
                 workerVars, transients, samples, historyVars, auxVars>>

(* ------------------------- metrics collector -------------------------- *)
\* fmt.Sprintf("%v", b)
FormatBool(b) == IF b THEN "true" ELSE "false"

collectSvc(svc) ==
  [kubernetes_namespace |-> svc.namespace, kubernetes_name |-> svc.name,
   type |-> svc.type, internal |-> FormatBool(isInternal(svc)), value |-> 1]

\* mutant: the samples of a scrape are added to those of the scrape before
CollectAccumulating ==
  /\ mainPc = "serve"
  /\ samples' = samples \cup {collectSvc(svc) : svc \in StoreList(store)}
  /\ UNCHANGED <<configVars, mainPc, planeVars, watchVars, storeVars, fifoVars, fifoRef,
                 closes, workerVars, transients, historyVars, auxVars>>

Collect ==
  /\ mainPc = "serve"
  /\ samples' = {collectSvc(svc) : svc \in StoreList(store)}
  /\ UNCHANGED <<configVars, mainPc, planeVars, watchVars, storeVars, fifoVars, fifoRef,
                 closes, workerVars, transients, historyVars, auxVars>>

(* ---------------------------- terminator ------------------------------ *)
\* fifo := cache.NewFIFO(...); cache.NewReflector(..., fifo, 0).Run()
TerminatorStart ==
  /\ Alive
  /\ wpc = "start"
  /\ fifoItems' = NewFIFO.items
  /\ fifoQueue' = NewFIFO.queue
  /\ fifoRef' = "list"
  /\ wpc' = "pop"
  /\ UNCHANGED <<configVars, mainPc, planeVars, watchVars, storeVars, closes, item, err,
                 transients, samples, historyVars, auxVars>>

\* Reflector.watchHandler on a cache.FIFO
FifoHandle(f, ev) ==
  CASE ev.type = "ADDED" -> FifoAdd(f, ev.object)
    [] ev.type = "MODIFIED" -> FifoAdd(f, ev.object)
    [] ev.type = "DELETED" -> FifoDelete(f, ev.object)

\* mutant: process runs outside the FIFO's lock
FifoNeverLocked == FALSE

\* Pop holds the FIFO's lock while process runs
FifoLocked == wpc = "delete"

FifoListAndWatch ==
  /\ Alive
  /\ fifoRef = "list"
  /\ ~FifoLocked
  /\ \E order \in Orders({MetaNamespaceKeyFunc(svc) : svc \in Listing}) :
       LET f == FifoReplace(Listing, order)
       IN  fifoItems' = f.items /\ fifoQueue' = f.queue
  /\ fifoWatch' = <<>>
  /\ fifoRef' = "watch"
  /\ pushed' = [k \in Keys |-> IF remote[k] # NoSvc THEN [n |-> 1, last |-> remote[k]]
                                ELSE NoPush]
  /\ latest' = [k \in Keys |-> remote[k]]
  /\ UNCHANGED <<configVars, mainPc, planeVars, storeWatch, storeVars, closes, workerVars,
                 transients, samples, deleted, notified, posts, retried, taken, auxVars>>

FifoWatchEvent ==
  /\ Alive
  /\ fifoRef = "watch"
  /\ fifoWatch # <<>>
  /\ ~FifoLocked
  /\ LET f == FifoHandle(fifo, Head(fifoWatch))
     IN  fifoItems' = f.items /\ fifoQueue' = f.queue
  /\ fifoWatch' = Tail(fifoWatch)
  /\ LET ev == Head(fifoWatch)
         k == MetaNamespaceKeyFunc(ev.object)
     IN  /\ pushed' = [pushed EXCEPT ![k] =
                        IF ev.type = "DELETED" THEN NoPush
                        ELSE [n |-> pushed[k].n + 1, last |-> ev.object]]
         /\ latest' = [latest EXCEPT ![k] =
                        IF ev.type = "DELETED" THEN NoSvc ELSE ev.object]
  /\ UNCHANGED <<configVars, mainPc, planeVars, storeWatch, storeVars, fifoRef, closes,
                 workerVars, transients, samples, deleted, notified, posts, retried, taken,
                 auxVars>>

\* the watch ends or errors: the events not yet received are lost
FifoWatchClose ==
  /\ Alive
  /\ fifoRef = "watch"
  /\ closes < MaxCloses
  /\ fifoRef' = "list"
  /\ fifoWatch' = <<>>
  /\ closes' = closes + 1
  /\ UNCHANGED <<configVars, mainPc, planeVars, storeWatch, storeVars, fifoVars,
                 workerVars, transients, samples, historyVars, auxVars>>

\* mutant: process does not classify before deleting
ProcessSkipsNothing(svc) == FALSE

\* process: if isInternal(svc) { return nil }
ProcessSkips(svc) == isInternal(svc)

\* fifo.Pop up to the delete call of process: the first queued key that
\* still has an item is taken off the queue and out of the items
Pop ==
  /\ Alive
  /\ wpc = "pop"
  /\ fifoQueue # <<>>
  /\ LET q == SkipDeleted(fifoQueue, fifoItems)
     IN  IF q = <<>>
         THEN /\ fifoQueue' = <<>>
              /\ UNCHANGED <<fifoItems, workerVars, pushed, taken>>
         ELSE /\ fifoQueue' = Tail(q)
              /\ fifoItems' = Remove(fifoItems, Head(q))
              /\ item' = fifoItems[Head(q)]
              /\ err' = NoErr
              /\ wpc' = IF ProcessSkips(fifoItems[Head(q)]) THEN "post" ELSE "delete"
              /\ taken' = [n |-> pushed[Head(q)].n, last |-> pushed[Head(q)].last,
                            external |-> /\ remote[Head(q)] # NoSvc
                                         /\ remote[Head(q)].uid = fifoItems[Head(q)].uid
                                         /\ ~isInternal(remote[Head(q)])]
              /\ pushed' = [pushed EXCEPT ![Head(q)] = NoPush]
  /\ UNCHANGED <<configVars, mainPc, planeVars, watchVars, storeVars, fifoRef, closes,
                 transients, samples, deleted, notified, posts, retried, latest, auxVars>>

\* mutant: the delete is sent without preconditions
DeleteOptionsUnconditional(svc) == [preconditions |-> FALSE, uid |-> svc.uid]

\* opts := api.DeleteOptions{Preconditions: &api.Preconditions{UID: &svc.UID}}
DeleteOptions(svc) == [preconditions |-> TRUE, uid |-> svc.uid]

\* the outcomes of client.Core().Services(ns).Delete(name, &opts)
DeleteOutcomes(key, opts) ==
  {ApiDeleteResult(remote, key, opts)}
    \cup (IF transients < MaxTransient THEN {"Transient"} ELSE {})

\* mutant: a failed delete is not reported as cache.ErrRequeue
RequeueNever(f, svc, e) == f

\* if err != nil { return cache.ErrRequeue{err} }: Pop puts the item back
Requeue(f, svc, e) ==
  IF e # NoErr THEN FifoAddIfNotPresent(f, MetaNamespaceKeyFunc(svc), svc) ELSE f

\* the delete call of process, and the rest of Pop
Delete ==
  /\ Alive
  /\ wpc = "delete"
  /\ LET key == MetaNamespaceKeyFunc(item)
         opts == DeleteOptions(item)
     IN  \E e \in DeleteOutcomes(key, opts) :
           /\ IF e = NoErr
              THEN /\ remote' = [remote EXCEPT ![key] = NoSvc]
                   /\ Publish(Event("DELETED", [remote[key] EXCEPT !.rv = lastRv + 1]))
                   /\ lastRv' = lastRv + 1
                   /\ deleted' = Append(deleted,
                                [namespace |-> item.namespace, name |-> item.name,
                                 uid |-> remote[key].uid, observed |-> item.uid,
                                 rv |-> remote[key].rv, observedRv |-> item.rv,
                                 internal |-> isInternal(remote[key]),
                                 classified |-> isInternal(item),
                                 externalAtPop |-> taken.external])
              ELSE UNCHANGED <<remote, lastRv, watchVars, deleted>>
           /\ transients' = IF e = "Transient" THEN transients + 1 ELSE transients
           /\ retried' = IF e = "Transient"
                          THEN Put(retried, item.uid,
                                   IF item.uid \in DOMAIN retried
                                   THEN retried[item.uid] + 1 ELSE 1)
                          ELSE retried
           /\ err' = e
           /\ LET f == Requeue(fifo, item, e)
              IN  /\ fifoItems' = f.items
                  /\ fifoQueue' = f.queue
                  /\ pushed' = IF f = fifo THEN pushed
                                ELSE [pushed EXCEPT ![key] =
                                        [n |-> pushed[key].n + 1, last |-> item]]
  /\ wpc' = "post"
  /\ UNCHANGED <<configVars, mainPc, nextUid, changes, storeVars, fifoRef, closes,
                 item, samples, notified, posts, taken, latest, auxVars>>

\* mutant: the error Pop returned is not looked at
NotifiesIgnoringErr(svc, e) == ~isInternal(svc)

\* if !isInternal(svc) { if err != nil { continue }; notify(svc) }
Notifies(svc, e) == ~isInternal(svc) /\ e = NoErr

\* slackApi.PostMessage(*slackChan, msg, ...): the transport may fail for any
\* channel, and has no channel to deliver to when the channel is ""
PostMessage(channel) == IF channel = "" THEN {"error"} ELSE {"ok", "error"}

\* notifySlack: returns at once without a token; otherwise posts to
\* *slackChan and logs the error or the delivery
notifySlack(svc) ==
  IF slackToken = "" THEN posts' = posts
  ELSE \E r \in PostMessage(slackChan) :
         posts' = Append(posts, [channel |-> slackChan, namespace |-> svc.namespace,
                                 name |-> svc.name, result |-> r])

\* notify(svc): the notifier is invoked for svc.Namespace/svc.Name
notify(svc) ==
  /\ notified' = Append(notified, [namespace |-> svc.namespace, name |-> svc.name,
                                   uid |-> svc.uid])
  /\ notifySlack(svc)

\* the worker loop after Pop returns; item and err are the iteration's own
Post ==
  /\ Alive
  /\ wpc = "post"
  /\ IF Notifies(item, err) THEN notify(item) ELSE UNCHANGED <<notified, posts>>
  /\ wpc' = "pop"
  /\ item' = NoSvc
  /\ err' = NoErr
  /\ taken' = NoPush
  /\ UNCHANGED <<configVars, mainPc, planeVars, watchVars, storeVars, fifoVars, fifoRef,
                 closes, transients, samples, deleted, retried, pushed, latest, auxVars>>

(* ---------------------------- specification --------------------------- *)
Client ==
  \E k \in Keys :
    \/ \E sh \in Shapes : ClientCreate(k, sh)
    \/ \E sh \in Shapes : ClientUpdate(k, sh)
    \/ ClientDelete(k)

Next ==
  \/ Client
  \/ MainTerminate
  \/ MainProvider
  \/ MainStore
  \/ StoreListAndWatch
  \/ StoreWatchEvent
  \/ StoreWatchClose
  \/ Collect
  \/ TerminatorStart
  \/ FifoListAndWatch
  \/ FifoWatchEvent
  \/ FifoWatchClose
  \/ Pop
  \/ Delete
  \/ Post

Spec == Init /\ [][Next]_vars

\* Scheduling: main and the goroutines it starts keep running; the reflector
\* goroutine gets the FIFO's lock between two Pops even when the worker
\* takes it again and again (strong fairness for the steps that need the
\* lock).  Other clients and watch failures are under no obligation, and
\* transient delete failures are at most MaxTransient.
Fairness ==
  /\ WF_vars(MainTerminate)
  /\ WF_vars(MainProvider)
  /\ WF_vars(MainStore)
  /\ WF_vars(TerminatorStart)
  /\ SF_vars(FifoListAndWatch)
  /\ SF_vars(FifoWatchEvent)
  /\ WF_vars(Pop)
  /\ WF_vars(Delete)
  /\ WF_vars(Post)

\* The terminator with main, in termination mode with a supported provider.
\* The store's reflector and the collector are left out of this
\* specification: they read the control plane and write only the store and
\* the samples, which no step of the terminator reads.
InitTermination ==
  /\ Init
  /\ terminate
  /\ provider \in {"aws", "gcp"}

NextTermination ==
  \/ Client
  \/ MainTerminate
  \/ MainProvider
  \/ MainStore
  \/ TerminatorStart
  \/ FifoListAndWatch
  \/ FifoWatchEvent
  \/ FifoWatchClose
  \/ Pop
  \/ Delete
  \/ Post

FairSpec == InitTermination /\ [][NextTermination]_vars /\ Fairness


(* ------------------------ worker: properties ------------------------- *)
Count(seq, u) == Cardinality({i \in 1..Len(seq) : seq[i].uid = u})
External(svc) == svc # NoSvc /\ ~isInternal(svc)
\* the incarnation the worker observed is no longer the one on the control plane
Gone(svc) ==
  \/ remote[MetaNamespaceKeyFunc(svc)] = NoSvc
  \/ remote[MetaNamespaceKeyFunc(svc)].uid # svc.uid

\* the Service of key k with UID u is on the control plane and external
ExternalOnPlane(k, u) ==
  /\ remote[k] # NoSvc
  /\ remote[k].uid = u
  /\ ~isInternal(remote[k])

\* the worker deleted UID u with a precondition naming u and notified k for it
DeletedAndNotified(k, u) ==
  /\ \E i \in 1..Len(deleted) :
       /\ deleted[i].uid = u
       /\ deleted[i].observed = u
       /\ <<deleted[i].namespace, deleted[i].name>> = k
  /\ \E i \in 1..Len(notified) :
       /\ notified[i].uid = u
       /\ <<notified[i].namespace, notified[i].name>> = k

\* C1: in termination mode with a supported provider, under fair scheduling
\* and with transient delete failures coming to an end, a load-balanced
\* resource without the provider's marker is eventually deleted by a delete
\* whose UID precondition matches it and the notifier is invoked for its
\* namespace/name, unless it stops being external on the control plane by
\* another client's doing.
C1_ExternalEventuallyDeleted ==
  \A k \in Keys : \A u \in 1..MaxChanges :
    (terminate /\ provider \in {"aws", "gcp"} /\ ExternalOnPlane(k, u))
      ~> \/ DeletedAndNotified(k, u)
         \/ ~ExternalOnPlane(k, u) /\ Count(deleted, u) = 0

\* the only client operation was the create; the delete failed once
\* transiently, then succeeded, and the notifier was invoked
C1_Witness ==
  /\ terminate
  /\ changes = 1
  /\ transients = 1
  /\ DeletedAndNotified(<<"default", "web">>, 1)
  /\ wpc = "pop"

\* C2: the notifier is invoked exactly once for each successful delete, with
\* the namespace/name of the deleted resource; it is never invoked without a
\* successful delete just before it in the worker loop, and so at most once
\* per resource UID.
C2_NotifyOncePerDelete ==
  /\ Len(notified) <= Len(deleted)
  /\ Len(deleted) <= Len(notified) + 1
  /\ Len(deleted) = Len(notified) + 1 =>
       /\ wpc = "post"
       /\ deleted[Len(deleted)].uid = item.uid
  /\ \A i \in 1..Len(notified) :
       /\ notified[i].namespace = deleted[i].namespace
       /\ notified[i].name = deleted[i].name
       /\ notified[i].uid = deleted[i].uid
  /\ \A i, j \in 1..Len(notified) : notified[i].uid = notified[j].uid => i = j

\* the worker has deleted a Service and invoked the notifier for it
C2_Witness ==
  /\ Len(notified) = 1
  /\ Len(deleted) = 1
  /\ wpc = "pop"
  /\ notified[1].name = "web"

\* C3: every delete the worker issues carries the UID of the popped payload
\* as precondition, so an incarnation whose UID differs from the observed one
\* is never removed by the worker.
C3_DeleteOnlyObservedUid ==
  /\ wpc = "delete" =>
       /\ DeleteOptions(item).preconditions
       /\ DeleteOptions(item).uid = item.uid
  /\ \A i \in 1..Len(deleted) : deleted[i].uid = deleted[i].observed
  /\ (wpc = "post" /\ err # NoErr /\ External(item)) =>
       \A i \in 1..Len(deleted) : deleted[i].observed = item.uid => deleted[i].uid = item.uid

\* the worker's delete met another incarnation under the same name and left it
C3_Witness ==
  /\ wpc = "post"
  /\ err = "Conflict"
  /\ remote[MetaNamespaceKeyFunc(item)] # NoSvc
  /\ remote[MetaNamespaceKeyFunc(item)].uid # item.uid
  /\ External(remote[MetaNamespaceKeyFunc(item)])

\* C4: the worker issues a delete only for a popped entry whose payload
\* classifies as external; an entry whose payload classifies as internal is
\* discarded with no delete, no requeue and no notification.
C4_InternalDiscarded ==
  [][ /\ wpc' = "delete" => External(item')
      /\ (wpc = "pop" /\ wpc' = "post") =>
           /\ isInternal(item')
           /\ MetaNamespaceKeyFunc(item') \notin DOMAIN fifoItems'
           /\ UNCHANGED <<remote, deleted, notified, transients>>
      /\ (wpc = "post" /\ wpc' = "pop" /\ isInternal(item)) =>
           UNCHANGED <<remote, deleted, notified, fifoItems, fifoQueue>>
    ]_vars

\* a Service whose delete failed while it was external is popped again as
\* internal and is on its way to being discarded
C4_Witness ==
  /\ wpc = "post"
  /\ item # NoSvc
  /\ isInternal(item)
  /\ item.type = "LoadBalancer"
  /\ item.uid \in DOMAIN retried
  /\ nextUid = 2

\* C5: when termination mode is off, no delete is ever issued and the
\* notifier is never invoked, whatever is listed or watched; the metrics path
\* is active in both modes.
C5_NoTerminationNoDelete ==
  /\ ~terminate =>
       /\ wpc = "off"
       /\ fifoRef = "off"
       /\ deleted = <<>>
       /\ notified = <<>>
  /\ mainPc = "serve" => ENABLED Collect

\* termination is off, an external load balancer is mirrored and reported
C5_Witness ==
  /\ ~terminate
  /\ \E k \in DOMAIN store : External(store[k]) /\ remote[k] = store[k]
  /\ \E m \in samples : m.internal = "false"

\* C7: when the delete of an external resource fails transiently any number
\* of times and a later retry succeeds, the notifier is invoked exactly once
\* in total for that resource.
C7_RetryNotifiesOnce ==
  \A u \in DOMAIN retried :
    /\ Count(notified, u) <= 1
    /\ Count(deleted, u) <= 1
    /\ (Count(deleted, u) = 1 /\ wpc = "pop") => Count(notified, u) = 1
    /\ Count(deleted, u) = 0 => Count(notified, u) = 0

\* two transient failures, then the delete succeeded and was notified once
C7_Witness ==
  \E u \in DOMAIN retried :
    /\ retried[u] >= 2
    /\ Count(deleted, u) = 1
    /\ Count(notified, u) = 1
    /\ wpc = "pop"

C9_QueueCoalesces ==
  /\ \A k \in Keys : (k \in DOMAIN fifoItems) <=> pushed[k].n > 0
  /\ \A k \in DOMAIN fifoItems :
       /\ fifoItems[k] = pushed[k].last
       /\ \E i \in 1..Len(fifoQueue) : fifoQueue[i] = k
  /\ taken # NoPush =>
       /\ taken.n >= 1
       /\ item = taken.last
  /\ wpc = "delete" => MetaNamespaceKeyFunc(item) \notin DOMAIN fifoItems

\* Pop has just yielded one entry for two events of the same key
C9_Witness ==
  /\ wpc \in {"delete", "post"}
  /\ taken.n = 2
  /\ item = taken.last
  /\ item.rv = 2

(* ------------------- the classifier on its own ------------------------ *)
\* the values an annotation may carry: each provider's marker value and another
AnnValues == {awsLbInternalValue, gcpLbInternalValue, "true"}

\* every annotation map over the two marker keys
AnnMaps == UNION {[D -> AnnValues] : D \in SUBSET {awsLbInternal, gcpLbInternal}}

ProbeServices ==
  {Service(k, 1, 1, t, a) : k \in Keys, t \in ServiceTypes, a \in AnnMaps}

InitClassify ==
  /\ provider \in {"aws", "gcp"}
  /\ terminate = FALSE
  /\ NotifierOff
  /\ Boot
  /\ inbox = {}
  /\ applied = <<>>
  /\ probe \in ProbeServices
  /\ verdict = "none"

\* isInternal(svc) on the probe
Classify ==
  /\ verdict = "none"
  /\ verdict' = IF isInternal(probe) THEN "internal" ELSE "external"
  /\ UNCHANGED <<configVars, mainPc, planeVars, watchVars, storeVars, fifoVars, fifoRef,
                 closes, workerVars, transients, samples, historyVars,
                 inbox, applied, probe>>

NextClassify == Classify

SpecClassify == InitClassify /\ [][NextClassify]_vars

\* the provider policy table: provider -> (marker key, expected value)
MarkerKey(p) == IF p = "aws" THEN "service.beta.kubernetes.io/aws-load-balancer-internal"
                ELSE "cloud.google.com/load-balancer-type"
MarkerValue(p) == IF p = "aws" THEN "0.0.0.0/0" ELSE "internal"

\* C6: for aws and gcp, classify returns internal if and only if the kind is
\* not load-balanced or the annotations map the provider's marker key to the
\* provider's expected value; a load-balanced resource with the marker absent
\* or set to any other value is external.
C6_ClassifyIffMarker ==
  verdict # "none" =>
    /\ verdict \in {"internal", "external"}
    /\ (verdict = "internal") <=>
         \/ probe.type # "LoadBalancer"
         \/ /\ MarkerKey(provider) \in DOMAIN probe.ann
            /\ probe.ann[MarkerKey(provider)] = MarkerValue(provider)

\* a load-balanced Service carrying only the other provider's marker is external
C6_Witness ==
  /\ verdict = "external"
  /\ provider = "aws"
  /\ probe.type = "LoadBalancer"
  /\ DOMAIN probe.ann = {gcpLbInternal}
  /\ probe.ann[gcpLbInternal] = gcpLbInternalValue


(* --------------------- the mirror store on its own -------------------- *)
\* watch events for the store, one payload per key and resourceVersion
EventPool ==
  {Event(t, Service(k, 1, rv, "LoadBalancer", NoAnn)) :
     t \in {"ADDED", "MODIFIED", "DELETED"}, k \in Keys, rv \in 1..MaxRv}

\* sets of events whose resourceVersions differ per key
EventSets ==
  {S \in SUBSET EventPool :
     /\ S # {}
     /\ \A a, b \in S :
          (MetaNamespaceKeyFunc(a.object) = MetaNamespaceKeyFunc(b.object)
             /\ a.object.rv = b.object.rv) => a = b}

InitStore ==
  /\ provider = "aws"
  /\ terminate = FALSE
  /\ NotifierOff
  /\ Boot
  /\ inbox \in EventSets
  /\ applied = <<>>
  /\ probe = NoSvc
  /\ verdict = "none"

\* the reflector hands the store an event of the inbox, in any arrival order
ApplyEvent ==
  \E ev \in inbox :
    /\ store' = StoreHandle(store, ev)
    /\ inbox' = inbox \ {ev}
    /\ applied' = Append(applied, ev)
    /\ UNCHANGED <<configVars, mainPc, planeVars, watchVars, storeRef, fifoVars, fifoRef,
                   closes, workerVars, transients, samples, historyVars, probe, verdict>>

NextStore == ApplyEvent

SpecStore == InitStore /\ [][NextStore]_vars

\* the events of a set in resourceVersion order
RECURSIVE InRvOrder(_)
InRvOrder(S) ==
  IF S = {} THEN <<>>
  ELSE LET first == CHOOSE e \in S : \A o \in S : e.object.rv <= o.object.rv
       IN  <<first>> \o InRvOrder(S \ {first})

RECURSIVE ApplyAll(_, _)
ApplyAll(st, evs) ==
  IF evs = <<>> THEN st ELSE ApplyAll(StoreHandle(st, Head(evs)), Tail(evs))

AppliedSet == {applied[i] : i \in 1..Len(applied)}

\* C10: an incoming event whose resourceVersion is equal to or older than the
\* stored resource's never overwrites the newer stored value, so events with
\* increasing per-key resourceVersion applied in any arrival order leave the
\* store that applying them in order leaves.
C10_StoreConvergence ==
  /\ \A i \in 1..Len(applied) :
       LET k == MetaNamespaceKeyFunc(applied[i].object)
       IN  k \in DOMAIN store => store[k].rv >= applied[i].object.rv
  /\ inbox = {} => store = ApplyAll(EmptyMap, InRvOrder(AppliedSet))


(* ------------------------ mirror and metrics -------------------------- *)
\* C11: when the watch closes and the mirror lists again, the store after
\* the list holds exactly the resources of the remote collection at list
\* time: what was deleted during the outage is gone, what was created is
\* there, and no key appears twice.
C11_RelistMatchesRemote ==
  [][ (storeRef = "list" /\ storeRef' = "watch") =>
        /\ StoreList(store') = Listing
        /\ DOMAIN store' = {k \in Keys : remote[k] # NoSvc}
        /\ \A k \in DOMAIN store' : store'[k] = remote[k]
        /\ Cardinality(StoreList(store')) = Cardinality(DOMAIN store')
        /\ storeWatch' = <<>>
    ]_vars

\* termination is off; a scrape saw the Service, the store's watch was closed,
\* the Service was deleted, and the store after the new list is empty again
C11_Witness ==
  /\ ~terminate
  /\ closes = 1
  /\ samples # {}
  /\ storeRef = "watch"
  /\ storeWatch = <<>>
  /\ store = EmptyMap
  /\ Listing = {}

\* what a scrape of the store st must emit, from the provider policy table
ExpectedSamples(st) ==
  {[kubernetes_namespace |-> k[1], kubernetes_name |-> k[2], type |-> st[k].type,
    internal |-> IF \/ st[k].type # "LoadBalancer"
                    \/ /\ MarkerKey(provider) \in DOMAIN st[k].ann
                       /\ st[k].ann[MarkerKey(provider)] = MarkerValue(provider)
                 THEN "true" ELSE "false",
    value |-> 1] : k \in DOMAIN st}

\* C12: a scrape emits exactly one sample of value 1 for every resource in
\* the store at scrape time and none for any other, labelled with its
\* namespace, name, kind and the classification computed at that scrape; a
\* load-balanced resource carrying the provider's marker value is reported
\* internal=true.
C12_ScrapeMatchesStore ==
  [][ samples' # samples =>
        /\ samples' = ExpectedSamples(store)
        /\ Cardinality(samples') = Cardinality(DOMAIN store)
        /\ \A m \in samples' : m.value = 1
    ]_vars

\* the last scrape reported a load balancer with the marker as internal
C12_Witness ==
  \E m \in samples :
    /\ m.internal = "true"
    /\ m.type = "LoadBalancer"
    /\ \E k \in DOMAIN store :
         /\ k = <<m.kubernetes_namespace, m.kubernetes_name>>
         /\ Annotation(store[k], MarkerKey(provider)) = MarkerValue(provider)


(* ----------------------- startup and error paths ---------------------- *)
\* C13: with an unknown provider the process aborts at startup and the
\* termination worker never classifies a resource or issues a delete, under
\* any interleaving of the startup steps with the worker.
C13_UnknownProviderNoWork ==
  (provider # "aws" /\ provider # "gcp") =>
    /\ wpc \notin {"delete", "post"}
    /\ deleted = <<>>
    /\ notified = <<>>

\* C14: when a delete fails with a precondition mismatch (the UID changed),
\* the worker handles it as a success no-op: no notification, no error
\* reported, no requeue of the entry and no retry with the stale UID.
C14_MismatchIsNoOp ==
  [][ (/\ wpc = "delete"
       /\ wpc' = "post"
       /\ remote[MetaNamespaceKeyFunc(item)] # NoSvc
       /\ remote[MetaNamespaceKeyFunc(item)].uid # item.uid
       /\ transients' = transients) =>
        /\ err' = NoErr
        /\ MetaNamespaceKeyFunc(item) \notin DOMAIN fifoItems'
        /\ fifoQueue' = fifoQueue
        /\ UNCHANGED <<remote, deleted, notified>>
    ]_vars

\* C15: when a delete fails transiently, the worker does not notify, the key
\* is pending in the queue again immediately afterwards, and the worker goes
\* on with the next Pop.
C15_TransientRequeues ==
  [][ /\ (wpc = "delete" /\ wpc' = "post" /\ err' = "Transient") =>
           /\ MetaNamespaceKeyFunc(item) \in DOMAIN fifoItems'
           /\ fifoItems'[MetaNamespaceKeyFunc(item)] = item
           /\ \E i \in 1..Len(fifoQueue') : fifoQueue'[i] = MetaNamespaceKeyFunc(item)
           /\ UNCHANGED <<remote, deleted, notified>>
      /\ (wpc = "post" /\ err = "Transient" /\ wpc' # wpc) =>
           /\ wpc' = "pop"
           /\ UNCHANGED <<notified, mainPc>>
      /\ (Alive /\ wpc = "post" /\ err = "Transient") => ENABLED Post
      /\ (Alive /\ wpc = "pop" /\ fifoQueue # <<>>) => ENABLED Pop
    ]_vars

\* the worker is back at Pop after a transient failure, the entry is pending
\* and nothing was notified
C15_Witness ==
  /\ wpc = "pop"
  /\ transients >= 1
  /\ notified = <<>>
  /\ \E k \in DOMAIN fifoItems :
       /\ fifoItems[k].uid \in DOMAIN retried
       /\ \E i \in 1..Len(fifoQueue) : fifoQueue[i] = k

\* C18: after any number of watch closures or errors the mirror lists again
\* and re-opens a watch: there is no reachable state in which it has stopped
\* retrying, and no such failure stops the worker loop or the metrics path.
C18_ReflectorsNeverGiveUp ==
  /\ mainPc = "serve" =>
       /\ storeRef \in {"list", "watch"}
       /\ storeRef = "list" => ENABLED StoreListAndWatch
       /\ ENABLED Collect
  /\ wpc \in {"pop", "delete", "post"} =>
       /\ fifoRef \in {"list", "watch"}
       /\ (Alive /\ fifoRef = "list" /\ ~FifoLocked) => ENABLED FifoListAndWatch
  /\ (Alive /\ wpc = "pop" /\ fifoQueue # <<>>) => ENABLED Pop
  /\ (Alive /\ wpc = "delete") => ENABLED Delete
  /\ (Alive /\ wpc = "post") => ENABLED Post

\* a watch was closed and both reflectors are watching again, with main
\* serving and the worker at Pop
C18_Witness ==
  /\ closes = MaxCloses
  /\ mainPc = "serve"
  /\ storeRef = "watch"
  /\ fifoRef = "watch"
  /\ wpc = "pop"
  /\ store # EmptyMap

(* ------------------------- requeue and events ------------------------- *)
\* C16: requeue never brings back a removed resource.  Once the FIFO's
\* reflector has applied the removal of a key (a DELETED event, or a list the
\* key is not in) and until an ADDED or MODIFIED event or a list brings the
\* key again, the FIFO holds no item for the key and the worker is not at a
\* delete call for it, whatever requeue happened before or around the removal.
C16_RequeueNeverResurrects ==
  \A k \in Keys :
    latest[k] = NoSvc =>
      /\ k \notin DOMAIN fifoItems
      /\ wpc = "delete" => MetaNamespaceKeyFunc(item) # k

\* a delete failed and was requeued, then the removal of the key was applied:
\* the requeued key is still in the queue and has no item
C16_Witness ==
  \E k \in Keys :
    /\ latest[k] = NoSvc
    /\ retried # EmptyMap
    /\ wpc = "pop"
    /\ \E i \in 1..Len(fifoQueue) : fifoQueue[i] = k

\* C17: every payload the worker pops for a key is the most recent payload
\* the FIFO received for that key: the item the FIFO holds for a key is always
\* the last payload delivered for it, requeued or not, and the payload a Pop
\* hands to the worker is that one.
C17_PopsMostRecent ==
  /\ [](\A k \in DOMAIN fifoItems : fifoItems[k] = latest[k])
  /\ [][(wpc = "pop" /\ wpc' # "pop") =>
          item' = latest[MetaNamespaceKeyFunc(item')]]_vars

\* the delete of a payload failed and it was requeued, a newer event for the
\* key arrived after the requeue, and the worker has popped the key again
C17_Witness ==
  /\ wpc = "delete"
  /\ item.uid \in DOMAIN retried
  /\ taken.n >= 2
  /\ item.rv >= 2
  /\ item = latest[MetaNamespaceKeyFunc(item)]

(* --------------------------- residual race ---------------------------- *)
\* C19: the residual race is reachable (C19_Witness), and it is the only way
\* a resource that is internal is deleted: every delete that removed a
\* resource that was internal at that moment was issued for a payload the
\* worker had classified external, of the same incarnation (the UID the
\* delete checks), and the resource was edited after that payload.
C19_InternalDeletedOnlyByRace ==
  \A i \in 1..Len(deleted) :
    deleted[i].internal =>
      /\ ~deleted[i].classified
      /\ deleted[i].uid = deleted[i].observed
      /\ deleted[i].rv > deleted[i].observedRv

\* the worker classified a payload external while the control plane held
\* that incarnation as external; it was edited to internal before the delete
\* was issued, and the delete removed it
C19_Witness ==
  \E i \in 1..Len(deleted) :
    /\ deleted[i].externalAtPop
    /\ ~deleted[i].classified
    /\ deleted[i].internal
    /\ deleted[i].uid = deleted[i].observed

(* ------------------------------ notifier ------------------------------ *)
\* the terminator with every setting of -slack-token and -slack-channel
InitNotify ==
  /\ provider = "aws"
  /\ terminate = TRUE
  /\ slackToken \in SlackTokens
  /\ slackChan \in SlackChans
  /\ Boot
  /\ inbox = {}
  /\ applied = <<>>
  /\ probe = NoSvc
  /\ verdict = "none"

SpecNotify == InitNotify /\ [][NextTermination]_vars

\* C20: when the notifier's credential or its channel is not configured, a
\* successful delete posts no message and produces no error: PostMessage is
\* never called, so there is neither a post nor a post error; and every
\* notification follows a delete that went through.
C20_UnconfiguredNotifierSilent ==
  (slackToken = "" \/ slackChan = "") =>
    /\ posts = <<>>
    /\ Len(notified) <= Len(deleted)

====
